---- MODULE Spec2Model ----
(***************************************************************************)
(* State-machine model of the NWC faucet: the provisioning handler         *)
(* (POST /), the top-up handler (POST /pay of src/src/app.ts) and the      *)
(* Lightning-Address payment handler (POST /pay of src/unnamed/part_000).  *)
(*                                                                         *)
(* Strings are sequences of one-character strings, so that split, the      *)
(* address regular expression and parseInt are computed character by       *)
(* character.  JavaScript numbers are records [t, n, d]: undefined, NaN or *)
(* the rational n/d.  Every await of the source is one step of the model:  *)
(* the step that receives the response also runs the synchronous code up   *)
(* to the next fetch.                                                      *)
(***************************************************************************)
EXTENDS Integers, Sequences, FiniteSets, TLC

VARIABLES hubUrlSet, clock, apps, prov, topup, pay

vars == <<hubUrlSet, clock, apps, prov, topup, pay>>

---------------------------------------------------------------------------
(* Bounds of the model. *)

\* concurrent provisioning invocations
NumProvision == 2
\* the last second of the clock
MaxClock == 1
\* wallets on the hub before a top-up request
MaxApps == 2
\* longest address string a request carries
MaxAddrLen == 5

---------------------------------------------------------------------------
(* JavaScript values. *)

\* an absent (undefined) string
Absent == <<"undefined">>

Undef == [t |-> "undef", n |-> 0, d |-> 1]

NaN == [t |-> "nan", n |-> 0, d |-> 1]

Num(k) == [t |-> "num", n |-> k, d |-> 1]

IsInt(x) == x.t = "num" /\ x.d = 1

\* a test that takes the empty string for a value
TruthyEmptyString(s) == s # Absent

\* a string in a boolean context: undefined and "" are falsy
Truthy(s) == s # Absent /\ s # <<>>

RECURSIVE Gcd(_, _)
Gcd(a, b) == IF b = 0 THEN a ELSE Gcd(b, a % b)

Abs(k) == IF k < 0 THEN -k ELSE k

\* a division that drops the fraction
JsDivTruncating(x, k) ==
  IF x.t # "num" THEN NaN ELSE Num((x.n \div x.d) \div k)

\* x / k for a positive integer k; undefined / k and NaN / k are NaN
JsDiv(x, k) ==
  IF x.t # "num" THEN NaN
  ELSE LET g == Gcd(Abs(x.n), x.d * k)
       IN  [t |-> "num", n |-> x.n \div g, d |-> (x.d * k) \div g]

\* x * k for an integer k
JsMul(x, k) ==
  IF x.t # "num" THEN NaN
  ELSE LET g == Gcd(Abs(x.n * k), x.d)
       IN  [t |-> "num", n |-> (x.n * k) \div g, d |-> x.d \div g]

\* x < y and x > y: false as soon as one side is not a number
JsLt(x, y) == x.t = "num" /\ y.t = "num" /\ x.n * y.d < y.n * x.d

JsGt(x, y) == JsLt(y, x)

Digits == <<"0", "1", "2", "3", "4", "5", "6", "7", "8", "9">>

IsDigit(c) == \E k \in 1..10 : Digits[k] = c

DigitVal(c) == (CHOOSE k \in 1..10 : Digits[k] = c) - 1

IsSpace(c) == c = " "

RECURSIVE DigitsPrefix(_)
DigitsPrefix(s) ==
  IF s = <<>> \/ ~IsDigit(Head(s)) THEN <<>>
  ELSE <<Head(s)>> \o DigitsPrefix(Tail(s))

RECURSIVE DecValue(_)
DecValue(ds) ==
  IF ds = <<>> THEN 0
  ELSE DecValue(SubSeq(ds, 1, Len(ds) - 1)) * 10 + DigitVal(ds[Len(ds)])

RECURSIVE SkipSpace(_)
SkipSpace(s) == IF s # <<>> /\ IsSpace(Head(s)) THEN SkipSpace(Tail(s)) ELSE s

\* parseInt(s, 10) and, for the strings of the model (none starts with 0x),
\* parseInt(s): leading white space, an optional sign, the longest prefix of
\* decimal digits; NaN when there is no digit
parseInt(s) ==
  LET t == SkipSpace(s)
      signed == t # <<>> /\ Head(t) \in {"-", "+"}
      ds == DigitsPrefix(IF signed THEN Tail(t) ELSE t)
  IN  IF ds = <<>> THEN NaN
      ELSE IF signed /\ Head(t) = "-" THEN Num(-DecValue(ds))
      ELSE Num(DecValue(ds))

RECURSIVE NatToString(_)
NatToString(k) ==
  IF k < 10 THEN <<Digits[k + 1]>>
  ELSE NatToString(k \div 10) \o <<Digits[(k % 10) + 1]>>

\* Number.prototype.toString of an integer or NaN
NumberToString(x) ==
  IF x.t # "num" THEN <<"N", "a", "N">>
  ELSE IF x.n < 0 THEN <<"-">> \o NatToString(-x.n)
  ELSE NatToString(x.n)

\* String.prototype.split on a one-character separator: every piece, in order
RECURSIVE split(_, _)
split(s, sep) ==
  IF \A k \in 1..Len(s) : s[k] # sep THEN <<s>>
  ELSE LET p == CHOOSE k \in 1..Len(s) : s[k] = sep /\ \A j \in 1..(k - 1) : s[j] # sep
       IN  <<SubSeq(s, 1, p - 1)>> \o split(SubSeq(s, p + 1, Len(s)), sep)

\* array destructuring: the k-th piece, undefined when there is none
Piece(parts, k) == IF k <= Len(parts) THEN parts[k] ELSE Absent

---------------------------------------------------------------------------
(* Program constants and error messages. *)

APP_NAME_PREFIX == <<"n", "w", "c">>

OPERATOR_DOMAIN == <<"g", "e", "t", "a", "l", "b", "y", ".", "c", "o", "m">>

ConfigMissing == "No ALBY_HUB_URL set"

FetchFailed == "fetch failed"

HubEndpointMissing == "Endpoint not found"

FailedToCreateApp == "Failed to create app"

HubResponseInvalid == "No pairing URI in create app response"

FailedToTransfer == "Failed to transfer"

FailedToCreateAddress == "Failed to create lightning address"

\* statuses a fetch can end with; 0 stands for a rejected fetch (no response)
HttpStatuses == {0, 200, 400, 404, 500}

\* the statuses of the endpoints whose handling knows only ok and not ok
TransferStatuses == {0, 200, 500}

\* a status check that forgets the upper end of the 2xx range
ResponseOkNoUpperEnd(status) == status >= 200

\* response.ok
ResponseOk(status) == status >= 200 /\ status <= 299

\* what the hub did with a request: it carried it out exactly on a 2xx answer
HubAccepts(status) == status \in 200..299

---------------------------------------------------------------------------
(* Requests and results. *)

\* a request as issued; status is -1 until the response arrives
Req(ep, appId, amountSat, text) ==
  [ep |-> ep, appId |-> appId, amountSat |-> amountSat, text |-> text, status |-> -1]

\* the log with its last (the pending) request answered
Settle(reqs, status) == [reqs EXCEPT ![Len(reqs)].status = status]

NoResult == [kind |-> "none", http |-> 0, error |-> "", pairingUri |-> Absent,
             lud16 |-> Absent]

Failure(http, msg) == [NoResult EXCEPT !.kind = "error", !.http = http, !.error = msg]

NoApp == [id |-> 0, name |-> Absent, pairingUri |-> Absent]

ProvIds == 1..NumProvision

\* a wallet name without the timestamp
createAppFixedName(sec) == Req("createApp", 0, Undef, APP_NAME_PREFIX)

\* the requests the hub client functions issue
createApp(sec) == Req("createApp", 0, Undef, APP_NAME_PREFIX \o NumberToString(Num(sec)))

transferToApp(appId, amountSat) == Req("transfer", appId, amountSat, <<>>)

\* a binding that addresses the wallet the hub created last, whoever asked for it
createLightningAddressLatest(appId, address) ==
  Req("createLightningAddress", Len(apps), Undef, address)

createLightningAddress(appId, address) ==
  Req("createLightningAddress", appId, Undef, address)

\* the opaque connection secret the hub issues for wallet id
PairingUriOf(id) == <<"nostr+walletconnect://">> \o NatToString(id)

\* getAlbyHubUrl: TRUE when it returns, FALSE when it throws
getAlbyHubUrl == hubUrlSet

\* balance of the provisioning handler: body first, then query
ParseBalance(body, query) ==
  IF Truthy(body) THEN parseInt(body)
  ELSE IF Truthy(query) THEN parseInt(query)
  ELSE Undef

\* a funding guard that tests only that a balance was given
NeedsTransferAnyBalance(balance) == balance.t # "undef"

\* the guard of the funding step
NeedsTransfer(balance) == balance.t # "undef" /\ JsGt(balance, Num(0))

\* the provisioning handler's return value
ProvisionReturn(newApp) ==
  [NoResult EXCEPT !.kind = "ok", !.http = 200,
                   !.pairingUri = newApp.pairingUri,
                   !.lud16 = newApp.name \o <<"@">> \o OPERATOR_DOMAIN]

\* a catch block that issues the failed request once more before it gives up
ProvisionFailRetrying(p, msg) ==
  LET last == p.reqs[Len(p.reqs)]
  IN  IF p.reqs # <<>> /\ Cardinality({k \in DOMAIN p.reqs : p.reqs[k].ep = last.ep}) < 2
      THEN [p EXCEPT !.reqs = Append(@, [last EXCEPT !.status = -1])]
      ELSE [p EXCEPT !.pc = "done", !.result = Failure(500, msg)]

\* a catch block that asks the hub to delete the wallet it had created
ProvisionFailCompensating(p, msg) ==
  [p EXCEPT !.pc = "done", !.result = Failure(500, msg),
            !.reqs = IF p.reqs # <<>> /\ p.reqs[1].status \in 200..299
                     THEN Append(@, Req("deleteApp", p.newApp.id, Undef, <<>>))
                     ELSE @]

\* a catch block that sends the failed request again until it succeeds; http
\* keeps the parity of the attempts
ProvisionFailRetryForever(p, msg) ==
  IF p.reqs # <<>> THEN [p EXCEPT !.reqs = Settle(@, -1), !.result.http = 1 - @]
  ELSE [p EXCEPT !.pc = "done", !.result = Failure(500, msg)]

\* the catch block of the handler: reply 500 with the message
ProvisionFail(p, msg) ==
  [p EXCEPT !.pc = "done", !.result = Failure(500, msg)]

\* a wallet as the hub holds it; createdBy is the provisioning invocation whose
\* request created it (0: it was there before)
Wallet(id, name, uri, by) ==
  [id |-> id, name |-> name, pairingUri |-> uri, balanceSat |-> 0, address |-> Absent,
   createdBy |-> by]

\* the hub's ledger after a transfer of amountSat into wallet id
Credit(ws, id, amountSat) ==
  [k \in DOMAIN ws |->
     IF ws[k].id = id /\ IsInt(amountSat)
     THEN [ws[k] EXCEPT !.balanceSat = @ + amountSat.n]
     ELSE ws[k]]

\* the hub's wallets after address was bound to wallet id
Bind(ws, id, address) ==
  [k \in DOMAIN ws |-> IF ws[k].id = id THEN [ws[k] EXCEPT !.address = address]
                       ELSE ws[k]]

---------------------------------------------------------------------------
(* The provisioning handler, fastify.post("/"). *)

BalanceStrings == {Absent, <<>>, <<"0">>, <<"2">>, <<"2", "x">>, <<"-", "2">>}

\* the handler up to the fetch of createApp.  Invocations are numbered in the
\* order they arrive; now is the second Date.now() reads, which never goes back
ProvisionStart(i) ==
  /\ prov[i].pc = "idle"
  /\ \A j \in 1..(i - 1) : prov[j].pc # "idle"
  /\ \E body \in BalanceStrings, query \in BalanceStrings, now \in clock..MaxClock :
       LET p == [prov[i] EXCEPT !.balance = ParseBalance(body, query)]
       IN  /\ clock' = now
           /\ prov' = [prov EXCEPT ![i] =
                IF ~getAlbyHubUrl THEN ProvisionFail(p, ConfigMissing)
                ELSE [p EXCEPT !.pc = "createApp", !.second = now,
                               !.reqs = <<createApp(now)>>]]
  /\ UNCHANGED <<hubUrlSet, apps, topup, pay>>

\* a handler that goes from createApp straight to the address binding
AfterCreateAppUnfunded(p, newApp) ==
  [p EXCEPT !.pc = "createLightningAddress", !.newApp = newApp,
            !.reqs = Append(@, createLightningAddress(newApp.id, newApp.name))]

\* the steps of the handler after createApp returned newApp
AfterCreateApp(p, newApp) ==
  IF NeedsTransfer(p.balance)
  THEN [p EXCEPT !.pc = "transferToApp", !.newApp = newApp,
                 !.reqs = Append(@, transferToApp(newApp.id, p.balance))]
  ELSE [p EXCEPT !.pc = "createLightningAddress", !.newApp = newApp,
                 !.reqs = Append(@, createLightningAddress(newApp.id, newApp.name))]

\* the hub answers POST /api/apps: the rest of createApp, then the handler up to
\* its next fetch
ProvisionCreateApp(i) ==
  /\ prov[i].pc = "createApp"
  /\ \E status \in HttpStatuses, uri \in {Absent, <<>>, PairingUriOf(Len(apps) + 1)} :
       LET p == [prov[i] EXCEPT !.reqs = Settle(@, status)]
           id == Len(apps) + 1
           name == p.reqs[1].text
           newApp == [id |-> id, name |-> name, pairingUri |-> uri]
       IN  /\ apps' = IF HubAccepts(status) THEN Append(apps, Wallet(id, name, uri, i))
                      ELSE apps
           /\ prov' = [prov EXCEPT ![i] =
                IF status = 0 THEN ProvisionFail(p, FetchFailed)
                ELSE IF ~ResponseOk(status)
                THEN IF status = 404 THEN ProvisionFail(p, HubEndpointMissing)
                     ELSE ProvisionFail(p, FailedToCreateApp)
                ELSE IF ~Truthy(newApp.pairingUri)
                THEN ProvisionFail(p, HubResponseInvalid)
                ELSE AfterCreateApp(p, newApp)]
  /\ UNCHANGED <<hubUrlSet, clock, topup, pay>>

\* the hub answers the funding transfer
ProvisionTransfer(i) ==
  /\ prov[i].pc = "transferToApp"
  /\ \E status \in TransferStatuses :
       LET p == [prov[i] EXCEPT !.reqs = Settle(@, status)]
       IN  /\ apps' = IF HubAccepts(status) THEN Credit(apps, p.newApp.id, p.balance)
                      ELSE apps
           /\ prov' = [prov EXCEPT ![i] =
                IF status = 0 THEN ProvisionFail(p, FetchFailed)
                ELSE IF ~ResponseOk(status) THEN ProvisionFail(p, FailedToTransfer)
                ELSE [p EXCEPT !.pc = "createLightningAddress",
                               !.reqs = Append(@, createLightningAddress(p.newApp.id,
                                                                         p.newApp.name))]]
  /\ UNCHANGED <<hubUrlSet, clock, topup, pay>>

\* the hub answers POST /api/lightning-addresses
ProvisionAddress(i) ==
  /\ prov[i].pc = "createLightningAddress"
  /\ \E status \in TransferStatuses :
       LET p == [prov[i] EXCEPT !.reqs = Settle(@, status)]
           r == p.reqs[Len(p.reqs)]
       IN  /\ apps' = IF HubAccepts(status) THEN Bind(apps, r.appId, r.text) ELSE apps
           /\ prov' = [prov EXCEPT ![i] =
                IF status = 0 THEN ProvisionFail(p, FetchFailed)
                ELSE IF ~ResponseOk(status) THEN ProvisionFail(p, FailedToCreateAddress)
                ELSE [p EXCEPT !.pc = "done", !.result = ProvisionReturn(p.newApp)]]
  /\ UNCHANGED <<hubUrlSet, clock, topup, pay>>

---------------------------------------------------------------------------
(* The top-up handler, fastify.post("/pay") of src/src/app.ts. *)

AddressRequired == "Lightning address is required"

InvalidAddress == "Invalid Lightning Address"

FailedToListApps == "Failed to list apps"

WalletNotFound == "App not found"

DEFAULT_AMOUNT == <<"1", "0", "0", "0">>

AmountStrings == {Absent, <<>>, <<"0">>, <<"1">>, <<"2">>, <<"3">>, <<"-", "1">>, <<"x">>}

\* every string of at most n characters over the alphabet
StringsUpTo(alphabet, n) == UNION {[1..k -> alphabet] : k \in 0..n}

TopUpAddresses == StringsUpTo({"a", "A", "@"}, MaxAddrLen) \cup {Absent}

\* parseInt(body?.amount || "1000")
ParseAmount(amountStr) ==
  parseInt(IF Truthy(amountStr) THEN amountStr ELSE DEFAULT_AMOUNT)

NoTopUpResult == [kind |-> "none", http |-> 0, error |-> "", amount |-> Undef]

TopUpReply(t, http, msg) ==
  [t EXCEPT !.pc = "done",
            !.result = [NoTopUpResult EXCEPT !.kind = "error", !.http = http,
                                             !.error = msg]]

IdleTopUp == [pc |-> "idle", lightningAddress |-> Absent, amount |-> Undef,
              appName |-> Absent, targetApp |-> 0, reqs |-> <<>>,
              result |-> NoTopUpResult]

\* a scan that accepts a wallet whose name only starts with appName
findByPrefix(list, appName) ==
  LET hit(k) == /\ Len(list[k].name) >= Len(appName)
                /\ SubSeq(list[k].name, 1, Len(appName)) = appName
  IN  IF \E k \in 1..Len(list) : hit(k)
      THEN CHOOSE k \in 1..Len(list) : hit(k) /\ \A j \in 1..(k - 1) : ~hit(j)
      ELSE 0

\* a scan that keeps the last wallet of that name
findLast(list, appName) ==
  IF \E k \in 1..Len(list) : list[k].name = appName
  THEN CHOOSE k \in 1..Len(list) :
         /\ list[k].name = appName
         /\ \A j \in (k + 1)..Len(list) : list[j].name # appName
  ELSE 0

\* apps.find((app) => app.name === appName): the position of the first wallet of
\* that name, 0 when find returns undefined
find(list, appName) ==
  IF \E k \in 1..Len(list) : list[k].name = appName
  THEN CHOOSE k \in 1..Len(list) :
         /\ list[k].name = appName
         /\ \A j \in 1..(k - 1) : list[j].name # appName
  ELSE 0

\* the answer of GET /api/apps
ListApps(ws) == [k \in DOMAIN ws |-> [id |-> ws[k].id, name |-> ws[k].name]]

\* the handler up to the fetch of the wallet list
TopUpStart ==
  /\ topup.pc = "idle"
  /\ \E address \in TopUpAddresses, amountStr \in AmountStrings :
       LET appName == Piece(split(address, "@"), 1)
           t == [topup EXCEPT !.lightningAddress = address,
                              !.amount = ParseAmount(amountStr)]
       IN  topup' =
             IF ~Truthy(address) THEN TopUpReply(t, 400, AddressRequired)
             ELSE IF ~Truthy(appName)
             THEN TopUpReply([t EXCEPT !.appName = appName], 400, InvalidAddress)
             ELSE IF ~getAlbyHubUrl
             THEN TopUpReply([t EXCEPT !.appName = appName], 500, ConfigMissing)
             ELSE [t EXCEPT !.pc = "listApps", !.appName = appName,
                            !.reqs = <<Req("listApps", 0, Undef, <<>>)>>]
  /\ UNCHANGED <<hubUrlSet, clock, apps, prov, pay>>

\* the hub answers the list: the scan, then transferToApp up to its fetch
TopUpListApps ==
  /\ topup.pc = "listApps"
  /\ \E status \in HttpStatuses :
       LET t == [topup EXCEPT !.reqs = Settle(@, status)]
           listed == ListApps(apps)
           k == find(listed, t.appName)
       IN  topup' =
             IF status = 0 THEN TopUpReply(t, 500, FetchFailed)
             ELSE IF ~ResponseOk(status) THEN TopUpReply(t, 500, FailedToListApps)
             ELSE IF k = 0 THEN TopUpReply(t, 500, WalletNotFound)
             ELSE [t EXCEPT !.pc = "transferToApp", !.targetApp = listed[k].id,
                            !.reqs = Append(@, transferToApp(listed[k].id, t.amount))]
  /\ UNCHANGED <<hubUrlSet, clock, apps, prov, pay>>

\* the hub answers the transfer
TopUpTransfer ==
  /\ topup.pc = "transferToApp"
  /\ \E status \in TransferStatuses :
       LET t == [topup EXCEPT !.reqs = Settle(@, status)]
       IN  /\ apps' = IF HubAccepts(status) THEN Credit(apps, t.targetApp, t.amount)
                      ELSE apps
           /\ topup' =
                IF status = 0 THEN TopUpReply(t, 500, FetchFailed)
                ELSE IF ~ResponseOk(status) THEN TopUpReply(t, 500, FailedToTransfer)
                ELSE [t EXCEPT !.pc = "done",
                               !.result = [NoTopUpResult EXCEPT !.kind = "ok",
                                                                !.http = 200,
                                                                !.amount = t.amount]]
  /\ UNCHANGED <<hubUrlSet, clock, prov, pay>>

---------------------------------------------------------------------------
(* The payment handler, fastify.post("/pay") of src/unnamed/part_000, with  *)
(* resolveLightningAddress and payInvoice.  A URL is a sequence of tokens:  *)
(* "?", "&" and "=" are tokens of their own, every other token stands for a *)
(* run of ordinary characters.                                              *)

AddressMalformed == "Invalid Lightning Address format"

RecipientUnreachable == "Failed to resolve LN Address"

RecipientUnsupported == "Invalid LNURL response: tag is not payRequest"

AmountOutOfRange == "Amount must be between"

InvalidUrl == "Invalid URL"

FailedToFetchInvoice == "Failed to fetch invoice"

RecipientResponseInvalid == "Invalid invoice response from callback"

FailedToPayInvoice == "Failed to pay invoice"

PAY_REQUEST == "payRequest"

\* the divisor and factor between millisatoshis and satoshis
MSAT_PER_SAT == 1000

URL_BASE == "https://x.test/cb"

PayAddresses == StringsUpTo({"a", "@", ".", " "}, MaxAddrLen) \cup {Absent}

Tags == {PAY_REQUEST, "withdrawRequest", "payrequest", ""}

MinSendables == {Undef, Num(1000), Num(1500), Num(2000)}

MaxSendables == {Undef, Num(1000), Num(2000), Num(2500), Num(10000), Num(1000000)}

Callbacks ==
  {Absent, <<"cb">>, <<URL_BASE>>,
   <<URL_BASE, "?", "k", "=", "v">>,
   <<URL_BASE, "?", "k">>,
   <<URL_BASE, "?", "amount", "=", "7">>,
   <<URL_BASE, "?", "k", "=", "v", "&", "j", "=", "w", "=", "u">>}

DiscoveryDocuments ==
  [tag : Tags, minSendable : MinSendables, maxSendable : MaxSendables,
   callback : Callbacks]

PaymentRequests == {Absent, <<>>, <<"lnbc1">>, <<"lnbc2">>}

Outcomes == {[amount |-> Num(1), fee |-> Num(0), payment_preimage |-> <<"p">>]}

\* [^\s@]
Plain(c) == ~IsSpace(c) /\ c # "@"

AllPlain(s) == \A k \in 1..Len(s) : Plain(s[k])

\* a validation that lets every string through
emailRegexAcceptsAll(s) == TRUE

\* /^[^\s@]+@[^\s@]+\.[^\s@]+$/.test(s)
emailRegex(s) ==
  \E i, j \in 1..Len(s) :
    /\ s[i] = "@"
    /\ s[j] = "."
    /\ 1 < i /\ i + 1 < j /\ j < Len(s)
    /\ AllPlain(SubSeq(s, 1, i - 1))
    /\ AllPlain(SubSeq(s, i + 1, j - 1))
    /\ AllPlain(SubSeq(s, j + 1, Len(s)))

\* a tag check that only asks for a tag to be present
TagOkAnyTag(tag) == tag # ""

\* params.tag !== "payRequest" is false
TagOk(tag) == tag = PAY_REQUEST

\* a pr check that only asks for the field to be present
PrMissingOnlyUndefined(pr) == pr = Absent

\* !invoiceData.pr
PrMissing(pr) == ~Truthy(pr)

\* new URL(s) returns (TRUE) or throws (FALSE): s must be an absolute URL
ValidUrl(s) == s # Absent /\ s # <<>> /\ Head(s) = URL_BASE

\* the text after the first "?"
QueryOf(s) ==
  LET p == split(s, "?")
  IN  IF Len(p) = 1 THEN <<>> ELSE SubSeq(s, Len(p[1]) + 2, Len(s))

NonEmpty(x) == x # <<>>

\* one name=value piece of a query: the first "=" separates name and value
ParsePair(piece) ==
  LET q == split(piece, "=")
  IN  [name |-> q[1],
       value |-> IF Len(q) = 1 THEN <<>>
                 ELSE SubSeq(piece, Len(q[1]) + 2, Len(piece))]

\* url.searchParams: the (name, value) pairs of the query, in order
searchParams(s) ==
  LET pieces == SelectSeq(split(QueryOf(s), "&"), NonEmpty)
  IN  [k \in 1..Len(pieces) |-> ParsePair(pieces[k])]

RECURSIVE SerializeParams(_)
SerializeParams(ps) ==
  IF ps = <<>> THEN <<>>
  ELSE Head(ps).name \o <<"=">> \o Head(ps).value
       \o (IF Len(ps) = 1 THEN <<>> ELSE <<"&">> \o SerializeParams(Tail(ps)))

\* url.toString() of a URL with the given base and search parameters
SerializeUrl(base, ps) ==
  <<base>> \o (IF ps = <<>> THEN <<>> ELSE <<"?">> \o SerializeParams(ps))

\* a callback URL whose query is overwritten by the amount
AppendAmountOverwriting(callback, amountSat) ==
  SerializeUrl(Head(callback),
               <<[name |-> <<"amount">>,
                  value |-> NumberToString(JsMul(amountSat, MSAT_PER_SAT))]>>)

\* callbackUrl.searchParams.append("amount", (amountSat * 1000).toString())
AppendAmount(callback, amountSat) ==
  SerializeUrl(Head(callback),
               Append(searchParams(callback),
                      [name |-> <<"amount">>,
                       value |-> NumberToString(JsMul(amountSat, MSAT_PER_SAT))]))

\* https://${domain}/.well-known/lnurlp/${user}
LnurlUrl(user, domain) == <<"https://">> \o domain \o <<"/.well-known/lnurlp/">> \o user

\* a range check that refuses the bounds themselves
OutOfRangeExclusive(amountSat, minSendable, maxSendable) ==
  ~JsGt(amountSat, minSendable) \/ ~JsLt(amountSat, maxSendable)

\* the range check of resolveLightningAddress: TRUE when the amount is refused
OutOfRange(amountSat, minSendable, maxSendable) ==
  JsLt(amountSat, minSendable) \/ JsGt(amountSat, maxSendable)

\* a request of the payment handler; resp is the pr of the callback's answer
PayReq(ep, url, invoice) ==
  [ep |-> ep, url |-> url, invoice |-> invoice, status |-> -1, resp |-> Absent]

\* the request payInvoice issues
payInvoice(invoice) == PayReq("payInvoice", <<>>, invoice)

NoParams == [tag |-> "", minSendable |-> Undef, maxSendable |-> Undef,
             callback |-> Absent]

NoOutcome == [amount |-> Undef, fee |-> Undef, payment_preimage |-> Absent]

NoPayResult == [kind |-> "none", http |-> 0, error |-> "", minSendable |-> Undef,
                maxSendable |-> Undef, outcome |-> NoOutcome]

PayReply(y, http, msg) ==
  [y EXCEPT !.pc = "done",
            !.result = [NoPayResult EXCEPT !.kind = "error", !.http = http,
                                           !.error = msg]]

IdlePay == [pc |-> "idle", lightningAddress |-> Absent, amount |-> Undef,
            params |-> NoParams, invoice |-> Absent, reqs |-> <<>>,
            result |-> NoPayResult]

\* the handler up to the first fetch of resolveLightningAddress
PayStart ==
  /\ pay.pc = "idle"
  /\ \E address \in PayAddresses, amountStr \in AmountStrings :
       LET y == [pay EXCEPT !.lightningAddress = address,
                            !.amount = ParseAmount(amountStr)]
           parts == split(address, "@")
           user == Piece(parts, 1)
           domain == Piece(parts, 2)
       IN  pay' =
             IF ~Truthy(address) THEN PayReply(y, 400, AddressRequired)
             ELSE IF ~emailRegex(address) THEN PayReply(y, 400, AddressMalformed)
             ELSE IF ~Truthy(user) \/ ~Truthy(domain)
             THEN PayReply(y, 500, AddressMalformed)
             ELSE [y EXCEPT !.pc = "discovery",
                            !.reqs = <<PayReq("discovery", LnurlUrl(user, domain),
                                              Absent)>>]
  /\ UNCHANGED <<hubUrlSet, clock, apps, prov, topup>>

\* the rest of resolveLightningAddress once the document was read: tag check,
\* range check, callback fetch
AfterDiscovery(y, params) ==
  LET z == [y EXCEPT !.params = params]
      minSendable == JsDiv(params.minSendable, MSAT_PER_SAT)
      maxSendable == JsDiv(params.maxSendable, MSAT_PER_SAT)
  IN  IF ~TagOk(params.tag) THEN PayReply(z, 500, RecipientUnsupported)
      ELSE IF OutOfRange(z.amount, minSendable, maxSendable)
      THEN [z EXCEPT !.pc = "done",
                     !.result = [NoPayResult EXCEPT
                                   !.kind = "error", !.http = 500,
                                   !.error = AmountOutOfRange,
                                   !.minSendable = minSendable,
                                   !.maxSendable = maxSendable]]
      ELSE IF ~ValidUrl(params.callback) THEN PayReply(z, 500, InvalidUrl)
      ELSE [z EXCEPT !.pc = "callback",
                     !.reqs = Append(@, PayReq("callback",
                                               AppendAmount(params.callback, z.amount),
                                               Absent))]

\* the discovery fetch ends with status; the document is read only from an ok
\* response
PayDiscoveryOn(status) ==
  /\ pay.pc = "discovery"
  /\ LET y == [pay EXCEPT !.reqs = Settle(@, status)]
     IN  IF status = 0 THEN pay' = PayReply(y, 500, FetchFailed)
         ELSE IF ~ResponseOk(status) THEN pay' = PayReply(y, 500, RecipientUnreachable)
         ELSE \E params \in DiscoveryDocuments : pay' = AfterDiscovery(y, params)
  /\ UNCHANGED <<hubUrlSet, clock, apps, prov, topup>>

PayDiscovery == \E status \in HttpStatuses : PayDiscoveryOn(status)

\* the callback answers: pr check, then payInvoice up to its fetch
PayCallback ==
  /\ pay.pc = "callback"
  /\ \E status \in HttpStatuses, pr \in PaymentRequests :
       LET y == [pay EXCEPT !.reqs = [Settle(@, status) EXCEPT ![Len(@)].resp =
                                        IF ResponseOk(status) THEN pr ELSE Absent]]
       IN  pay' =
             IF status = 0 THEN PayReply(y, 500, FetchFailed)
             ELSE IF ~ResponseOk(status) THEN PayReply(y, 500, FailedToFetchInvoice)
             ELSE IF PrMissing(pr) THEN PayReply(y, 500, RecipientResponseInvalid)
             ELSE IF ~getAlbyHubUrl
             THEN PayReply([y EXCEPT !.invoice = pr], 500, ConfigMissing)
             ELSE [y EXCEPT !.pc = "payInvoice", !.invoice = pr,
                            !.reqs = Append(@, payInvoice(pr))]
  /\ UNCHANGED <<hubUrlSet, clock, apps, prov, topup>>

\* the hub answers the payment
PayInvoiceDone ==
  /\ pay.pc = "payInvoice"
  /\ \E status \in HttpStatuses, outcome \in Outcomes :
       LET y == [pay EXCEPT !.reqs = Settle(@, status)]
       IN  pay' =
             IF status = 0 THEN PayReply(y, 500, FetchFailed)
             ELSE IF ~ResponseOk(status) THEN PayReply(y, 500, FailedToPayInvoice)
             ELSE [y EXCEPT !.pc = "done",
                            !.result = [NoPayResult EXCEPT !.kind = "ok", !.http = 200,
                                                           !.outcome = outcome]]
  /\ UNCHANGED <<hubUrlSet, clock, apps, prov, topup>>

---------------------------------------------------------------------------
(* Initial states and specifications. *)

\* second is the second createApp read from the clock, -1 before it did
IdleProvision == [pc |-> "idle", balance |-> Undef, second |-> -1, newApp |-> NoApp,
                  reqs |-> <<>>, result |-> NoResult]

WalletNames == {<<"a">>, <<"A">>, <<"a", "a">>}

\* the wallet lists a hub may hold: any names, duplicates included
InitialApps ==
  {[k \in DOMAIN f |-> [Wallet(k, f[k], PairingUriOf(k), 0) EXCEPT !.address = f[k]]] :
     f \in StringsUpTo(WalletNames, MaxApps)}

\* a fresh process: no request yet, no wallet on the hub
InitProvision ==
  /\ hubUrlSet \in BOOLEAN
  /\ clock = 0
  /\ apps = <<>>
  /\ prov = [i \in ProvIds |-> IdleProvision]
  /\ topup = IdleTopUp
  /\ pay = IdlePay

NextProvision ==
  \/ \E i \in ProvIds : ProvisionStart(i)
  \/ \E i \in ProvIds : ProvisionCreateApp(i)
  \/ \E i \in ProvIds : ProvisionTransfer(i)
  \/ \E i \in ProvIds : ProvisionAddress(i)

\* concurrent provisioning requests
SpecProvision == InitProvision /\ [][NextProvision]_vars

\* a hub that already holds wallets
InitTopUp ==
  /\ hubUrlSet \in BOOLEAN
  /\ clock = 0
  /\ apps \in InitialApps
  /\ prov = [i \in ProvIds |-> IdleProvision]
  /\ topup = IdleTopUp
  /\ pay = IdlePay

NextTopUp == TopUpStart \/ TopUpListApps \/ TopUpTransfer

\* one top-up request
SpecTopUp == InitTopUp /\ [][NextTopUp]_vars

NextPay == PayStart \/ PayDiscovery \/ PayCallback \/ PayInvoiceDone

\* one payment request
SpecPay == InitProvision /\ [][NextPay]_vars

ProvisionIdle == \A i \in ProvIds : prov[i].pc = "idle"

\* a server that handles requests of one kind: concurrent provisioning
\* requests, or one top-up request (POST /pay of src/src/app.ts), or one
\* payment request (POST /pay of src/unnamed/part_000).  Provisioning and
\* payment, which never read the wallet list, run against a hub without wallets
OnlyProvision ==
  /\ topup.pc = "idle" /\ pay.pc = "idle"
  /\ ProvisionIdle => apps = <<>>

OnlyTopUp == ProvisionIdle /\ pay.pc = "idle"

OnlyPay == ProvisionIdle /\ topup.pc = "idle" /\ apps = <<>>

NextWorkflow ==
  \/ \E i \in ProvIds : OnlyProvision /\ ProvisionStart(i)
  \/ \E i \in ProvIds : OnlyProvision /\ ProvisionCreateApp(i)
  \/ \E i \in ProvIds : OnlyProvision /\ ProvisionTransfer(i)
  \/ \E i \in ProvIds : OnlyProvision /\ ProvisionAddress(i)
  \/ OnlyTopUp /\ TopUpStart
  \/ OnlyTopUp /\ TopUpListApps
  \/ OnlyTopUp /\ TopUpTransfer
  \/ OnlyPay /\ PayStart
  \/ OnlyPay /\ PayDiscovery
  \/ OnlyPay /\ PayCallback
  \/ OnlyPay /\ PayInvoiceDone

SpecWorkflow == InitTopUp /\ [][NextWorkflow]_vars

\* a fetch whose answer never came is given up by the network layer
FETCH_REJECTED == 0

\* every fetch that was issued resolves or rejects: each step that receives a
\* response is taken once it stays possible.  For the discovery fetch, whose
\* possible answers are many, the condition is stated for its rejection alone:
\* that step is possible exactly as long as no answer of any kind has arrived,
\* so a discovery fetch cannot stay outstanding for ever
ResponsesArrive ==
  /\ \A i \in ProvIds : WF_vars(OnlyProvision /\ ProvisionCreateApp(i))
  /\ \A i \in ProvIds : WF_vars(OnlyProvision /\ ProvisionTransfer(i))
  /\ \A i \in ProvIds : WF_vars(OnlyProvision /\ ProvisionAddress(i))
  /\ WF_vars(OnlyTopUp /\ TopUpListApps)
  /\ WF_vars(OnlyTopUp /\ TopUpTransfer)
  /\ WF_vars(OnlyPay /\ PayDiscoveryOn(FETCH_REJECTED))
  /\ WF_vars(OnlyPay /\ PayCallback)
  /\ WF_vars(OnlyPay /\ PayInvoiceDone)

SpecWorkflowFair == SpecWorkflow /\ ResponsesArrive

---------------------------------------------------------------------------
(* Properties. *)

\* the hub carried the request out
Succeeded(r) == r.status >= 200 /\ r.status <= 299

\* the positions of the requests to endpoint ep in a log
Positions(reqs, ep) == {k \in DOMAIN reqs : reqs[k].ep = ep}

\* localpart@domain: exactly one "@", with text on both sides of it
TwoPart(s) ==
  /\ s # Absent
  /\ Cardinality({k \in DOMAIN s : s[k] = "@"}) = 1
  /\ s # <<>> /\ s[1] # "@" /\ s[Len(s)] # "@"

\* the wallets the hub created for provisioning invocation i
WalletsOf(i) == {k \in DOMAIN apps : apps[k].createdBy = i}

\* C1: a provisioning invocation ends in exactly one of two ways.  Either it
\* returns the pairing credential the hub issued for its wallet together with a
\* localpart@domain address, and then every request it issued (create-app, the
\* transfer when the balance is positive, create-address) was carried out; or
\* it replies with an error and returns no credential and no address.  It has no
\* result before it ends.
ProvisionAllOrNothing ==
  \A i \in ProvIds :
    LET p == prov[i]
        r == p.result
    IN  /\ r.kind \in {"none", "ok", "error"}
        /\ (p.pc = "done") <=> (r.kind # "none")
        /\ r.kind = "ok" =>
             /\ Truthy(r.pairingUri)
             /\ \E k \in WalletsOf(i) : apps[k].pairingUri = r.pairingUri
             /\ TwoPart(r.lud16)
             /\ \A k \in DOMAIN p.reqs : Succeeded(p.reqs[k])
             /\ Positions(p.reqs, "createApp") # {}
             /\ Positions(p.reqs, "createLightningAddress") # {}
             /\ (IsInt(p.balance) /\ p.balance.n > 0) =>
                  Positions(p.reqs, "transfer") # {}
        /\ r.kind = "error" =>
             /\ r.http = 500 /\ r.error # ""
             /\ r.pairingUri = Absent /\ r.lud16 = Absent

\* C1 witness: one invocation returned its credential after a funded
\* provisioning, another ended in an error after its wallet had been created.
ProvisionAllOrNothingWitness ==
  \E i, j \in ProvIds :
    /\ prov[i].result.kind = "ok" /\ prov[i].balance = Num(2)
    /\ prov[j].result.kind = "error" /\ Len(prov[j].reqs) >= 2

\* C2: with a balance b > 0, an invocation issues at most one transfer, of
\* amount b, to the wallet the hub created for it; as soon as its create-address
\* request exists, and when it returns success, exactly that one transfer was
\* issued earlier and the hub carried it out.
FundedBeforeAddress ==
  \A i \in ProvIds :
    LET p == prov[i]
        T == Positions(p.reqs, "transfer")
        A == Positions(p.reqs, "createLightningAddress")
    IN  (IsInt(p.balance) /\ p.balance.n > 0) =>
          /\ Cardinality(T) <= 1
          /\ \A t \in T :
               /\ p.reqs[t].amountSat = p.balance
               /\ \E k \in WalletsOf(i) : apps[k].id = p.reqs[t].appId
          /\ (A # {} \/ p.result.kind = "ok") =>
               \E t \in T : Succeeded(p.reqs[t]) /\ \A a \in A : t < a

\* C2 witness: a provisioning with balance 2 returned success.
FundedBeforeAddressWitness ==
  \E i \in ProvIds : prov[i].result.kind = "ok" /\ prov[i].balance = Num(2)

\* C3: with balance 0 or no balance, an invocation never issues a transfer, and
\* once the hub created its wallet and answered with a pairing credential the
\* create-address request for that wallet and its name has been issued.
NoTransferWithoutBalance ==
  \A i \in ProvIds :
    LET p == prov[i]
    IN  p.balance \in {Undef, Num(0)} =>
          /\ Positions(p.reqs, "transfer") = {}
          /\ \A k \in WalletsOf(i) :
               Truthy(apps[k].pairingUri) =>
                 \E a \in Positions(p.reqs, "createLightningAddress") :
                   /\ p.reqs[a].appId = apps[k].id
                   /\ p.reqs[a].text = apps[k].name

\* C3 witness: a provisioning with balance 0 bound an address and returned.
NoTransferWithoutBalanceWitness ==
  \E i \in ProvIds :
    /\ prov[i].balance = Num(0)
    /\ prov[i].result.kind = "ok"
    /\ \E k \in WalletsOf(i) : apps[k].address = apps[k].name

\* the transfer requests issued so far by any handler
TransfersIssued ==
  {topup.reqs[k] : k \in Positions(topup.reqs, "transfer")}
    \cup UNION {{prov[i].reqs[k] : k \in Positions(prov[i].reqs, "transfer")} :
                  i \in ProvIds}

\* C4: every transfer request that reaches the hub, from provisioning or from
\* top-up, carries a strictly positive integer amount.
EveryTransferPositive ==
  \A r \in TransfersIssued : IsInt(r.amountSat) /\ r.amountSat.n > 0

\* the text of an address before its first "@"
RECURSIVE BeforeAt(_)
BeforeAt(s) ==
  IF s = <<>> \/ Head(s) = "@" THEN <<>> ELSE <<Head(s)>> \o BeforeAt(Tail(s))

\* the discovery document of the payment invocation was fetched
DiscoveryFetched == Len(pay.reqs) >= 1 /\ Succeeded(pay.reqs[1])

\* the requested amount lies outside [minSendable/1000, maxSendable/1000]
OutsideBounds ==
  \/ pay.amount.n * 1000 < pay.params.minSendable.n
  \/ pay.amount.n * 1000 > pay.params.maxSendable.n

\* C5: for a payRequest document with integer millisatoshi bounds and an
\* integer amount a, the resolver fails with AmountOutOfRange, without a
\* callback request, exactly when a < minSendable/1000 or a > maxSendable/1000;
\* otherwise (a on a bound included) it goes on to the callback, which it
\* fetches whenever the callback is a URL.
RangeCheckInclusive ==
  (/\ DiscoveryFetched
   /\ pay.params.tag = PAY_REQUEST
   /\ IsInt(pay.params.minSendable) /\ IsInt(pay.params.maxSendable)
   /\ IsInt(pay.amount)) =>
    LET refused == /\ pay.pc = "done"
                   /\ pay.result.error = AmountOutOfRange
                   /\ Positions(pay.reqs, "callback") = {}
    IN  /\ OutsideBounds <=> refused
        /\ (~OutsideBounds /\ ValidUrl(pay.params.callback)) =>
             Positions(pay.reqs, "callback") # {}

\* C5 witness: minSendable = maxSendable = 1000 msat and a request of 1 sat,
\* which is on both bounds, reached the callback.
RangeCheckInclusiveWitness ==
  /\ pay.amount = Num(1)
  /\ pay.params.minSendable = Num(1000) /\ pay.params.maxSendable = Num(1000)
  /\ pay.params.tag = PAY_REQUEST
  /\ Positions(pay.reqs, "callback") # {}

\* C6: the callback URL that is fetched has the base of the document's
\* callback, its query parameters unchanged and in order, and after them
\* exactly one more parameter, amount, whose value is the decimal a * 1000.
CallbackKeepsQuery ==
  \A k \in Positions(pay.reqs, "callback") :
    LET url == pay.reqs[k].url
        had == searchParams(pay.params.callback)
        has == searchParams(url)
    IN  /\ Head(url) = Head(pay.params.callback)
        /\ Len(has) = Len(had) + 1
        /\ SubSeq(has, 1, Len(had)) = had
        /\ has[Len(has)].name = <<"amount">>
        /\ IsInt(pay.amount) =>
             /\ has[Len(has)].value = NumberToString(Num(pay.amount.n * 1000))
             /\ SubSeq(url, Len(url) - Len(has[Len(has)].value) - 1, Len(url))
                  = <<"amount", "=">> \o NumberToString(Num(pay.amount.n * 1000))

\* C6 witness: a callback that already had two parameters was fetched for an
\* amount of 2 sat.
CallbackKeepsQueryWitness ==
  /\ Positions(pay.reqs, "callback") # {}
  /\ Len(searchParams(pay.params.callback)) = 2
  /\ pay.amount = Num(2)

\* C7: a fetched discovery document whose tag is not payRequest ends the
\* invocation with RecipientUnsupported, whatever its bounds and callback and
\* whatever the amount, and the discovery fetch stays its only request.
WrongTagUnsupported ==
  (DiscoveryFetched /\ pay.params.tag # PAY_REQUEST) =>
    /\ pay.pc = "done"
    /\ pay.result.kind = "error" /\ pay.result.error = RecipientUnsupported
    /\ Len(pay.reqs) = 1

\* C7 witness: a withdrawRequest document with a usable callback, for an amount
\* below its minSendable, was refused as unsupported.
WrongTagUnsupportedWitness ==
  /\ DiscoveryFetched
  /\ pay.params.tag = "withdrawRequest"
  /\ pay.amount = Num(0) /\ pay.params.minSendable = Num(1000)
  /\ ValidUrl(pay.params.callback)
  /\ pay.result.error = RecipientUnsupported

\* C8: when the hub returned its wallet list and no wallet's name is equal,
\* character by character, to the text of the address before the "@", the
\* top-up ends with WalletNotFound and issues no transfer.
UnknownWalletNotFound ==
  (/\ Len(topup.reqs) >= 1 /\ Succeeded(topup.reqs[1])
   /\ \A k \in DOMAIN apps : apps[k].name # BeforeAt(topup.lightningAddress)) =>
    /\ topup.pc = "done"
    /\ topup.result.kind = "error" /\ topup.result.error = WalletNotFound
    /\ Positions(topup.reqs, "transfer") = {}

\* C8 witness: the localpart is "a", the hub lists a wallet "A" and a wallet
\* "aa", and the top-up ended with WalletNotFound.
UnknownWalletNotFoundWitness ==
  /\ BeforeAt(topup.lightningAddress) = <<"a">>
  /\ \E k \in DOMAIN apps : apps[k].name = <<"A">>
  /\ \E k \in DOMAIN apps : apps[k].name = <<"a", "a">>
  /\ topup.result.error = WalletNotFound

\* C9: a payment request whose address is not localpart@domain (one "@" with
\* text on both sides) is answered 400 with the malformed-address error, or with
\* the address-required error when it is empty or absent, and issues no request.
MalformedAddressNoNetwork ==
  (pay.pc # "idle" /\ ~TwoPart(pay.lightningAddress)) =>
    /\ pay.pc = "done"
    /\ pay.result.kind = "error" /\ pay.result.http = 400
    /\ pay.result.error = (IF Truthy(pay.lightningAddress) THEN AddressMalformed
                           ELSE AddressRequired)
    /\ pay.reqs = <<>>

\* C9 witness: an address without "@" was refused as malformed.
MalformedAddressNoNetworkWitness ==
  /\ pay.lightningAddress = <<"a", "a", ".", "a">>
  /\ pay.result.error = AddressMalformed
  /\ pay.reqs = <<>>

\* C10: the pay-invoice request is issued at most once, as the third request,
\* after a fetched payRequest document, an amount within integer bounds and a
\* callback answer with a non-empty pr, and it carries that pr; an invocation
\* that ended in a resolver error issued none.
PayInvoiceOnlyAfterPr ==
  LET P == Positions(pay.reqs, "payInvoice")
  IN  /\ Cardinality(P) <= 1
      /\ \A k \in P :
           /\ k = 3
           /\ pay.reqs[1].ep = "discovery" /\ Succeeded(pay.reqs[1])
           /\ pay.params.tag = PAY_REQUEST
           /\ (/\ IsInt(pay.params.minSendable) /\ IsInt(pay.params.maxSendable)
               /\ IsInt(pay.amount)) => ~OutsideBounds
           /\ pay.reqs[2].ep = "callback" /\ Succeeded(pay.reqs[2])
           /\ Truthy(pay.reqs[2].resp)
           /\ pay.reqs[k].invoice = pay.reqs[2].resp
      /\ pay.result.error \in {RecipientUnreachable, RecipientUnsupported,
                               AmountOutOfRange, InvalidUrl, FailedToFetchInvoice,
                               RecipientResponseInvalid} => P = {}
      /\ (\E k \in 1..2 : k <= Len(pay.reqs) /\ pay.reqs[k].status = 0) => P = {}

\* C10 witness: the hub paid the invoice the callback returned.
PayInvoiceOnlyAfterPrWitness ==
  /\ pay.result.kind = "ok"
  /\ \E k \in Positions(pay.reqs, "payInvoice") : pay.reqs[k].invoice = <<"lnbc2">>

\* the hub or the recipient answered the request, and not with a 2xx status
Failed(r) == r.status # -1 /\ ~Succeeded(r)

\* the error a handler ends with when the request to endpoint ep failed
ErrorOf(ep, status) ==
  IF status = 0 THEN FetchFailed
  ELSE CASE ep = "createApp" ->
              IF status = 404 THEN HubEndpointMissing ELSE FailedToCreateApp
         [] ep = "transfer" -> FailedToTransfer
         [] ep = "createLightningAddress" -> FailedToCreateAddress
         [] ep = "listApps" -> FailedToListApps
         [] ep = "discovery" -> RecipientUnreachable
         [] ep = "callback" -> FailedToFetchInvoice
         [] ep = "payInvoice" -> FailedToPayInvoice

\* one invocation's request log shows no retry and no request after a failure
NoRetryIn(reqs, pc, result) ==
  /\ \A j, k \in DOMAIN reqs : reqs[j].ep = reqs[k].ep => j = k
  /\ \A k \in DOMAIN reqs :
       Failed(reqs[k]) =>
         /\ k = Len(reqs)
         /\ pc = "done"
         /\ result.kind = "error"
         /\ result.error = ErrorOf(reqs[k].ep, reqs[k].status)
  /\ result.kind = "error" =>
       /\ pc = "done"
       /\ \A k \in DOMAIN reqs : reqs[k].status # -1

\* C11: in every provisioning, top-up and payment invocation each endpoint is
\* requested at most once; a request that failed (rejected fetch or non-2xx
\* answer) is the last request of its invocation, which has ended with the
\* error of that request; and an invocation that ended with an error, whatever
\* step raised it, has no request outstanding.
NoRetryAfterFailure ==
  /\ \A i \in ProvIds : NoRetryIn(prov[i].reqs, prov[i].pc, prov[i].result)
  /\ NoRetryIn(topup.reqs, topup.pc, topup.result)
  /\ NoRetryIn(pay.reqs, pay.pc, pay.result)

\* C11 witness: a provisioning ended with the transfer error after the hub
\* created its wallet and refused the transfer, with the address never requested.
NoRetryAfterFailureWitness ==
  \E i \in ProvIds :
    /\ Len(prov[i].reqs) = 2
    /\ Succeeded(prov[i].reqs[1])
    /\ prov[i].reqs[2].ep = "transfer" /\ prov[i].reqs[2].status = 500
    /\ prov[i].result.error = FailedToTransfer

\* C12: a provisioning invocation issues only create-app, transfer and
\* create-address requests (no delete, no compensating request).  The wallet the
\* hub created for it stays on the hub.  When its transfer failed, it has ended
\* with an error without a create-address request, and its wallet is there with
\* no funds and no address; when its create-address failed, it has ended with
\* an error and its wallet is there without an address, holding the balance
\* when a transfer was due and nothing otherwise.
NoRollback ==
  \A i \in ProvIds :
    LET p == prov[i]
        T == Positions(p.reqs, "transfer")
        A == Positions(p.reqs, "createLightningAddress")
    IN  /\ \A k \in DOMAIN p.reqs :
             p.reqs[k].ep \in {"createApp", "transfer", "createLightningAddress"}
        /\ (p.reqs # <<>> /\ Succeeded(p.reqs[1])) => Cardinality(WalletsOf(i)) = 1
        /\ (\E t \in T : Failed(p.reqs[t])) =>
             /\ p.pc = "done" /\ p.result.kind = "error"
             /\ A = {}
             /\ \E k \in WalletsOf(i) :
                  /\ apps[k].id = p.newApp.id
                  /\ apps[k].balanceSat = 0
                  /\ apps[k].address = Absent
        /\ (\E a \in A : Failed(p.reqs[a])) =>
             /\ p.pc = "done" /\ p.result.kind = "error"
             /\ \E k \in WalletsOf(i) :
                  /\ apps[k].id = p.newApp.id
                  /\ apps[k].balanceSat = (IF T # {} THEN p.balance.n ELSE 0)
                  /\ apps[k].address = Absent

\* C12 witness: one invocation's transfer failed and its wallet is on the hub
\* unfunded; another's create-address failed and its wallet is on the hub with
\* the 2 sat it was funded with.
NoRollbackWitness ==
  \E i, j \in ProvIds :
    /\ \E t \in Positions(prov[i].reqs, "transfer") : Failed(prov[i].reqs[t])
    /\ \E k \in WalletsOf(i) : apps[k].balanceSat = 0
    /\ \E a \in Positions(prov[j].reqs, "createLightningAddress") : Failed(prov[j].reqs[a])
    /\ \E k \in WalletsOf(j) : apps[k].balanceSat = 2 /\ apps[k].address = Absent

\* the invocation has called createApp
Requested(i) == prov[i].reqs # <<>>

\* C13: the name a provisioning invocation requests is the fixed prefix followed
\* by the second its createApp read from the clock, and the hub's wallet
\* carries that name; two invocations request the same name exactly when their
\* createApp ran in the same second.
SameSecondSameName ==
  /\ \A i \in ProvIds :
       Requested(i) =>
         /\ prov[i].second \in 0..MaxClock
         /\ SubSeq(prov[i].reqs[1].text, 1, Len(APP_NAME_PREFIX)) = APP_NAME_PREFIX
         /\ \A k \in WalletsOf(i) : apps[k].name = prov[i].reqs[1].text
  /\ \A i, j \in ProvIds :
       (i # j /\ Requested(i) /\ Requested(j)) =>
         ((prov[i].second = prov[j].second)
            <=> (prov[i].reqs[1].text = prov[j].reqs[1].text))

\* C13 witness: the hub holds two wallets with different ids and the same name,
\* created for two invocations that ran in the same second, both of which
\* returned success.
SameSecondSameNameWitness ==
  \E k, l \in DOMAIN apps :
    /\ apps[k].id # apps[l].id
    /\ apps[k].name = apps[l].name
    /\ apps[k].createdBy # apps[l].createdBy
    /\ \A i \in ProvIds : prov[i].result.kind = "ok"

\* the positions, in the hub's list, of the wallets named like the localpart
Matches == {k \in DOMAIN apps : apps[k].name = BeforeAt(topup.lightningAddress)}

\* C14: when the hub returned its list and at least one wallet's name equals the
\* localpart, the top-up has issued exactly one transfer; it carries the amount
\* of the request and the id of the first such wallet of the list, and when the
\* hub carried it out that wallet, and no other, was credited.
TopUpFirstMatch ==
  (/\ Len(topup.reqs) >= 1 /\ Succeeded(topup.reqs[1])
   /\ Matches # {}) =>
    LET first == CHOOSE k \in Matches : \A j \in Matches : k <= j
        T == Positions(topup.reqs, "transfer")
    IN  /\ Cardinality(T) = 1
        /\ Len(topup.reqs) = 2
        /\ \A t \in T :
             /\ topup.reqs[t].appId = apps[first].id
             /\ topup.reqs[t].amountSat = topup.amount
             /\ (Succeeded(topup.reqs[t]) /\ IsInt(topup.amount)) =>
                  apps[first].balanceSat = topup.amount.n
        /\ \A k \in DOMAIN apps : k # first => apps[k].balanceSat = 0

\* C14 witness: the hub lists two wallets named "a", the top-up of 3 sat to
\* a@a succeeded, and the first of them holds the 3 sat.
TopUpFirstMatchWitness ==
  /\ Len(apps) = 2 /\ apps[1].name = <<"a">> /\ apps[2].name = <<"a">>
  /\ topup.lightningAddress = <<"a", "@", "a">>
  /\ topup.result.kind = "ok" /\ topup.amount = Num(3)
  /\ apps[1].balanceSat = 3

\* the resolver refused the amount
Refused == pay.pc = "done" /\ pay.result.error = AmountOutOfRange

\* a fetched payRequest document with integer millisatoshi bounds, and an
\* integer amount
IntegerBounds ==
  /\ DiscoveryFetched
  /\ pay.params.tag = PAY_REQUEST
  /\ IsInt(pay.params.minSendable) /\ IsInt(pay.params.maxSendable)
  /\ IsInt(pay.amount)

\* the number q is exactly msat / 1000, in lowest terms
ExactQuotient(q, msat) ==
  /\ q.t = "num" /\ q.d > 0
  /\ q.n * MSAT_PER_SAT = msat.n * q.d
  /\ Gcd(Abs(q.n), q.d) = 1

\* C15 as stated: the bounds are floor(minSendable/1000) and
\* floor(maxSendable/1000): the amount is refused exactly when it lies outside
\* these two whole numbers, and they are what AmountOutOfRange carries.
BoundsTruncated ==
  IntegerBounds =>
    LET lo == pay.params.minSendable.n \div MSAT_PER_SAT
        hi == pay.params.maxSendable.n \div MSAT_PER_SAT
    IN  /\ Refused <=> (pay.amount.n < lo \/ pay.amount.n > hi)
        /\ Refused => /\ pay.result.minSendable = Num(lo)
                      /\ pay.result.maxSendable = Num(hi)

\* C15 amended: the bounds are the exact quotients minSendable/1000 and
\* maxSendable/1000, whole numbers exactly when the millisatoshi bound is a
\* multiple of 1000 and fractions otherwise; AmountOutOfRange carries them, and
\* a refused amount lies below the lower or above the upper of them.
BoundsExactQuotient ==
  (IntegerBounds /\ Refused) =>
    LET lo == pay.result.minSendable
        hi == pay.result.maxSendable
    IN  /\ ExactQuotient(lo, pay.params.minSendable)
        /\ ExactQuotient(hi, pay.params.maxSendable)
        /\ IsInt(lo) <=> pay.params.minSendable.n % MSAT_PER_SAT = 0
        /\ IsInt(hi) <=> pay.params.maxSendable.n % MSAT_PER_SAT = 0
        /\ \/ pay.amount.n * lo.d < lo.n
           \/ pay.amount.n * hi.d > hi.n

\* C15 witness: 1 sat was refused under minSendable 1500 and maxSendable 2500,
\* and the bounds reported are 3/2 and 5/2.
BoundsExactQuotientWitness ==
  /\ IntegerBounds /\ Refused
  /\ pay.amount = Num(1)
  /\ pay.params.minSendable = Num(1500) /\ pay.params.maxSendable = Num(2500)
  /\ pay.result.minSendable = [t |-> "num", n |-> 3, d |-> 2]
  /\ pay.result.maxSendable = [t |-> "num", n |-> 5, d |-> 2]

\* createApp of invocation i threw after its fetch: the hub was not reached, or
\* answered outside 2xx, or answered 2xx without a pairing credential
CreateAppFailed(i) ==
  /\ Requested(i)
  /\ \/ Failed(prov[i].reqs[1])
     \/ /\ Succeeded(prov[i].reqs[1])
        /\ \E k \in WalletsOf(i) : apps[k].pairingUri \in {Absent, <<>>}

\* the error kind the claim gives to the outcome of invocation i's createApp
ClaimedKind(i) ==
  LET status == prov[i].reqs[1].status
  IN  IF status = 0 \/ status \in 500..599 THEN "HubUnavailable"
      ELSE IF status = 404 THEN "HubEndpointMissing"
      ELSE IF status \notin 200..299 THEN "HubRejected"
      ELSE "HubResponseInvalid"

\* C16 as stated: an invocation whose createApp failed ends with an error after
\* that one request, and two such invocations whose outcomes are of different
\* kinds (HubUnavailable, HubEndpointMissing, HubRejected, HubResponseInvalid)
\* end with different errors.
CreateAppDistinctKinds ==
  /\ \A i \in ProvIds :
       CreateAppFailed(i) =>
         /\ prov[i].pc = "done" /\ prov[i].result.kind = "error"
         /\ Len(prov[i].reqs) = 1
  /\ \A i, j \in ProvIds :
       (CreateAppFailed(i) /\ CreateAppFailed(j) /\ ClaimedKind(i) # ClaimedKind(j)) =>
         prov[i].result.error # prov[j].result.error

\* C16 amended: an invocation whose createApp failed ends, after that one
\* request, with the fetch's own error when the hub was not reached, with
\* HubEndpointMissing on 404, with the one create-failed error on every other
\* non-2xx status (5xx included), and with HubResponseInvalid on a 2xx answer
\* without a pairing credential.
CreateAppErrors ==
  \A i \in ProvIds :
    CreateAppFailed(i) =>
      LET status == prov[i].reqs[1].status
      IN  /\ prov[i].pc = "done" /\ prov[i].result.kind = "error"
          /\ Len(prov[i].reqs) = 1
          /\ prov[i].result.error =
               (IF status = 0 THEN FetchFailed
                ELSE IF status = 404 THEN HubEndpointMissing
                ELSE IF status \notin 200..299 THEN FailedToCreateApp
                ELSE HubResponseInvalid)

\* C16 witness: the hub answered one createApp with 500 and another with 400,
\* and both invocations ended with the same create-failed error.
CreateAppErrorsWitness ==
  \E i, j \in ProvIds :
    /\ CreateAppFailed(i) /\ prov[i].reqs[1].status = 500
    /\ CreateAppFailed(j) /\ prov[j].reqs[1].status = 400
    /\ prov[i].result.error = FailedToCreateApp
    /\ prov[j].result.error = FailedToCreateApp

\* C17: when the hub base URL is not configured, no invocation of any workflow
\* issues a network request, and an invocation that has ended has ended with
\* the configuration error (or, for a request without a usable address, with
\* the validation error that precedes every call).
ConfigCheckedFirst ==
  ~hubUrlSet =>
    /\ \A i \in ProvIds :
         /\ prov[i].reqs = <<>>
         /\ prov[i].pc = "done" => prov[i].result.error = ConfigMissing
    /\ topup.reqs = <<>>
    /\ topup.pc = "done" =>
         topup.result.error \in {ConfigMissing, AddressRequired, InvalidAddress}
    /\ pay.reqs = <<>>
    /\ pay.pc = "done" =>
         pay.result.error \in {ConfigMissing, AddressRequired, AddressMalformed}

\* what invocation i holds and sends is its own: newApp is the wallet the hub
\* created for it, its transfer and create-address requests carry that wallet's
\* id, the address it binds and the lud16 it returns have that wallet's name
OwnValues(i) ==
  LET p == prov[i]
  IN  /\ p.newApp # NoApp =>
           \E k \in WalletsOf(i) :
             /\ apps[k].id = p.newApp.id
             /\ apps[k].name = p.newApp.name
             /\ apps[k].pairingUri = p.newApp.pairingUri
             /\ apps[k].name = p.reqs[1].text
      /\ \A r \in DOMAIN p.reqs :
           p.reqs[r].ep \in {"transfer", "createLightningAddress"} =>
             /\ p.newApp # NoApp
             /\ p.reqs[r].appId = p.newApp.id
             /\ p.reqs[r].ep = "createLightningAddress" => p.reqs[r].text = p.newApp.name
             /\ p.reqs[r].ep = "transfer" => p.reqs[r].amountSat = p.balance
      /\ p.result.kind = "ok" =>
           /\ p.result.lud16 = p.newApp.name \o <<"@">> \o OPERATOR_DOMAIN
           /\ p.result.pairingUri = p.newApp.pairingUri
           /\ \E k \in WalletsOf(i) :
                apps[k].id = p.newApp.id /\ apps[k].address = p.newApp.name

\* a step of invocation i leaves every other invocation as it was and touches
\* no wallet but the one created for i
OwnStep(i) ==
  prov'[i] # prov[i] =>
    /\ \A j \in ProvIds : j # i => prov'[j] = prov[j]
    /\ Len(apps') >= Len(apps)
    /\ \A k \in DOMAIN apps' :
         (k \notin DOMAIN apps \/ apps'[k] # apps[k]) => apps'[k].createdBy = i

\* C18: under every interleaving of concurrent provisioning invocations, each
\* invocation's transfer and create-address requests carry the wallet id its
\* own createApp returned, the address it binds and the lud16 localpart it
\* returns are the name of that same response, and every step changes only the
\* invocation that takes it and the wallet created for it.
ProvisionIsolated ==
  /\ [](\A i \in ProvIds : OwnValues(i))
  /\ [][(\A i \in ProvIds : OwnStep(i))
        /\ (apps' # apps => \E i \in ProvIds : prov'[i] # prov[i])]_vars

\* C18 witness: the hub answered the second invocation's createApp before the
\* first's, so the first holds wallet 2 and the second wallet 1, and both
\* returned success, the first after funding its wallet.
ProvisionIsolatedWitness ==
  /\ Len(apps) = 2
  /\ apps[1].createdBy = 2 /\ apps[2].createdBy = 1
  /\ prov[1].result.kind = "ok" /\ prov[2].result.kind = "ok"
  /\ prov[1].newApp.id = 2 /\ prov[2].newApp.id = 1
  /\ apps[2].balanceSat = 2 /\ apps[1].balanceSat = 0

\* the endpoints of a request log, in order
Endpoints(reqs) == [k \in DOMAIN reqs |-> reqs[k].ep]

\* s is t with some elements left out
RECURSIVE SubsequenceOf(_, _)
SubsequenceOf(s, t) ==
  IF s = <<>> THEN TRUE
  ELSE IF t = <<>> THEN FALSE
  ELSE IF Head(s) = Head(t) THEN SubsequenceOf(Tail(s), Tail(t))
  ELSE SubsequenceOf(s, Tail(t))

\* an invocation that has started and not ended waits for its last request
Waiting(pc, reqs) ==
  pc \notin {"idle", "done"} => (reqs # <<>> /\ reqs[Len(reqs)].status = -1)

\* C19: when every network call resolves or fails, every invocation that has
\* started ends.  An invocation issues at most three network calls, in the
\* order create, transfer, address (provisioning), list, transfer (top-up),
\* discovery, callback, pay (payment), and while it has not ended it is
\* waiting for the answer to the last call it issued.
EveryInvocationEnds ==
  /\ \A i \in ProvIds : (prov[i].pc # "idle") ~> (prov[i].pc = "done")
  /\ (topup.pc # "idle") ~> (topup.pc = "done")
  /\ (pay.pc # "idle") ~> (pay.pc = "done")
  /\ [](/\ \A i \in ProvIds :
            /\ SubsequenceOf(Endpoints(prov[i].reqs),
                             <<"createApp", "transfer", "createLightningAddress">>)
            /\ Waiting(prov[i].pc, prov[i].reqs)
        /\ SubsequenceOf(Endpoints(topup.reqs), <<"listApps", "transfer">>)
        /\ Waiting(topup.pc, topup.reqs)
        /\ SubsequenceOf(Endpoints(pay.reqs), <<"discovery", "callback", "payInvoice">>)
        /\ Waiting(pay.pc, pay.reqs))

\* C19 witness: a provisioning ended after three network calls and another is
\* waiting for the answer to its second.
EveryInvocationEndsWitness ==
  \E i, j \in ProvIds :
    /\ prov[i].pc = "done" /\ Len(prov[i].reqs) = 3
    /\ prov[j].pc = "transferToApp" /\ Len(prov[j].reqs) = 2
    /\ prov[j].reqs[2].status = -1

====
